---------------------------- MODULE Spec2Model ----------------------------
(***************************************************************************)
(* ProjectPing dashboard (src/app.py): one pass of the script, from the    *)
(* CSV load to the "latest snapshot per device" table.                     *)
(*                                                                         *)
(* Strings are sequences of characters, one TLA+ string per character; a   *)
(* non-ASCII character is written by its code point ("U+0E27").  An        *)
(* instant is an integer number of ticks, Day ticks to the calendar day.   *)
(***************************************************************************)
EXTENDS Integers, Sequences, FiniteSets, TLC

VARIABLES
    csv,          \* environment: what SHEET_CSV_URL serves (header, rows, offsets)
    clock,        \* environment: the wall clock, in ticks
    pc,           \* the script's position
    columns,      \* df.columns
    df,           \* the working DataFrame, a sequence of rows
    aware,        \* whether df["__Timestamp__"] is timezone-aware
    col,          \* col_ts, col_date, ...: logical field -> header or None
    projects, device_types, statuses, date_range,    \* the sidebar widgets
    c,            \* the value of st.date_input (Custom)
    start, now,   \* the window bounds
    latest,       \* latest_per_device(df)
    aliases, found    \* one call of find_col: its alias list and its result

vars == <<csv, clock, pc, columns, df, aware, col, projects, device_types,
          statuses, date_range, c, start, now, latest, aliases, found>>

(***************************************************************************)
(* Helpers: norm (src/app.py:16-20)                                        *)
(***************************************************************************)
\* Python None, and the falsy empty string: `if col_ts:` tests truthiness.
None == << >>

Truthy(x) == x # None

\* The characters str.strip() removes and \s matches.
WhitespaceChars == {" ", "\t"}

\* The character class [\s\-\./] of norm's regular expression.
SepChars == WhitespaceChars \cup {"-", ".", "/"}

UpperChars == <<"A","B","C","D","E","F","G","H","I","J","K","L","M",
                "N","O","P","Q","R","S","T","U","V","W","X","Y","Z">>

LowerChars == <<"a","b","c","d","e","f","g","h","i","j","k","l","m",
                "n","o","p","q","r","s","t","u","v","w","x","y","z">>

LowerChar(ch) ==
    IF \E i \in 1..Len(UpperChars) : UpperChars[i] = ch
    THEN LowerChars[CHOOSE i \in 1..Len(UpperChars) : UpperChars[i] = ch]
    ELSE ch

UpperChar(ch) ==
    IF \E i \in 1..Len(LowerChars) : LowerChars[i] = ch
    THEN UpperChars[CHOOSE i \in 1..Len(LowerChars) : LowerChars[i] = ch]
    ELSE ch

\* str.lower() and str.upper()
lower(s) == [i \in 1..Len(s) |-> LowerChar(s[i])]

upper(s) == [i \in 1..Len(s) |-> UpperChar(s[i])]

RECURSIVE lstrip(_)
lstrip(s) ==
    IF s # << >> /\ Head(s) \in WhitespaceChars THEN lstrip(Tail(s)) ELSE s

RECURSIVE rstrip(_)
rstrip(s) ==
    IF s # << >> /\ s[Len(s)] \in WhitespaceChars
    THEN rstrip(SubSeq(s, 1, Len(s) - 1))
    ELSE s

\* str.strip()
strip(s) == rstrip(lstrip(s))

\* re.sub(r"[\s\-\./]+", "_", s): every maximal run of separators becomes "_".
RECURSIVE resub(_)
resub(s) ==
    IF s = << >> THEN << >>
    ELSE IF Head(s) \in SepChars
         THEN IF Tail(s) # << >> /\ Head(Tail(s)) \in SepChars
              THEN resub(Tail(s))
              ELSE <<"_">> \o resub(Tail(s))
         ELSE <<Head(s)>> \o resub(Tail(s))

\* A variant of norm that forgets .lower().
normNoLower(s) == resub(strip(s))

norm(s) == resub(lower(strip(s)))

(***************************************************************************)
(* find_col (src/app.py:22-37)                                             *)
(***************************************************************************)
\* k.startswith(key)
startswith(k, key) == Len(key) <= Len(k) /\ SubSeq(k, 1, Len(key)) = key

\* key in k
contains(k, key) ==
    \E i \in 0..(Len(k) - Len(key)) : SubSeq(k, i + 1, i + Len(key)) = key

\* The keys of {norm(c): c for c in df.columns}, in insertion order: a key
\* keeps the place of its first insertion.
RECURSIVE normalizedKeys(_, _)
normalizedKeys(cols, acc) ==
    IF cols = << >> THEN acc
    ELSE LET k == norm(Head(cols))
         IN  normalizedKeys(Tail(cols),
                 IF \E i \in 1..Len(acc) : acc[i] = k THEN acc ELSE Append(acc, k))

\* normalized[k]: a later column of the same key overwrites the earlier one.
normalizedGet(cols, k) ==
    LET hits == {i \in 1..Len(cols) : norm(cols[i]) = k}
    IN  cols[CHOOSE i \in hits : \A j \in hits : j <= i]

find_col(cols, als) ==
    IF Len(cols) = 0 THEN None
    ELSE
    LET keys    == normalizedKeys(cols, << >>)
        inKeys(key) == \E j \in 1..Len(keys) : keys[j] = key
        exact   == {i \in 1..Len(als) : inKeys(norm(als[i]))}
        part(key, k) == startswith(k, key) \/ contains(k, key)
        partial == {i \in 1..Len(als) :
                       \E j \in 1..Len(keys) : part(norm(als[i]), keys[j])}
    IN  IF exact # {}
        THEN LET a == CHOOSE i \in exact : \A i2 \in exact : i <= i2
             IN  normalizedGet(cols, norm(als[a]))
        ELSE IF partial # {}
        THEN LET a == CHOOSE i \in partial : \A i2 \in partial : i <= i2
                 js == {j \in 1..Len(keys) : part(norm(als[a]), keys[j])}
                 j  == CHOOSE j1 \in js : \A j2 \in js : j1 <= j2
             IN  normalizedGet(cols, keys[j])
        ELSE None

\* ALIASES (src/app.py:40-53)
ALIASES == [
    timestamp |-> <<
        <<"t","i","m","e","s","t","a","m","p">>,
        <<"d","a","t","e","_","t","i","m","e">>,
        <<"d","a","t","e","t","i","m","e">>,
        <<"d","a","t","e","-","t","i","m","e">>,
        <<"U+0E27","U+0E31","U+0E19","U+0E40","U+0E27","U+0E25","U+0E32">>,
        <<"U+0E40","U+0E27","U+0E25","U+0E32","_","U+0E27","U+0E31","U+0E19",
          "U+0E17","U+0E35","U+0E48">> >>,
    date |-> <<
        <<"d","a","t","e">>,
        <<"U+0E27","U+0E31","U+0E19","U+0E17","U+0E35","U+0E48">> >>,
    time |-> <<
        <<"t","i","m","e">>,
        <<"U+0E40","U+0E27","U+0E25","U+0E32">> >>,
    project |-> <<
        <<"p","r","o","j","e","c","t">>,
        <<"s","i","t","e">>,
        <<"l","o","c","a","t","i","o","n">>,
        <<"U+0E42","U+0E1B","U+0E23","U+0E40","U+0E08","U+0E01","U+0E15","U+0E4C">>,
        <<"U+0E42","U+0E04","U+0E23","U+0E07","U+0E01","U+0E32","U+0E23">> >>,
    device_type |-> <<
        <<"d","e","v","i","c","e","_","t","y","p","e">>,
        <<"d","e","v","i","c","e","t","y","p","e">>,
        <<"t","y","p","e">>,
        <<"U+0E0A","U+0E19","U+0E34","U+0E14","U+0E2D","U+0E38","U+0E1B","U+0E01",
          "U+0E23","U+0E13","U+0E4C">>,
        <<"d","e","v","i","c","e"," ","t","y","p","e">> >>,
    cid |-> <<
        <<"c","i","d">>,
        <<"d","e","v","i","c","e","_","i","d">>,
        <<"c","l","i","e","n","t","_","i","d">>,
        <<"i","d">> >>,
    ip |-> <<
        <<"i","p">>,
        <<"i","p","_","a","d","d","r","e","s","s">>,
        <<"a","d","d","r","e","s","s">>,
        <<"i","p","v","4">> >>,
    status |-> <<
        <<"p","i","n","g","s","t","a","t","u","s","_","c","a","l","c","u","l","a","t","e","d">>,
        <<"s","t","a","t","u","s">>,
        <<"c","o","n","n","e","c","t","i","o","n","_","s","t","a","t","u","s">>,
        <<"s","t","a","t","e">> >>,
    avg_ping |-> <<
        <<"a","v","g","p","i","n","g","m","s","_","s","u","m","m","a","r","y">>,
        <<"a","v","g","_","p","i","n","g","_","m","s">>,
        <<"a","v","g","_","p","i","n","g">>,
        <<"l","a","t","e","n","c","y">>,
        <<"a","v","e","r","a","g","e","_","p","i","n","g","_","m","s">> >>,
    avg_loss |-> <<
        <<"a","v","g","l","o","s","s","p","e","r","c","e","n","t","_","s","u","m","m","a","r","y">>,
        <<"a","v","g","_","l","o","s","s","_","p","e","r","c","e","n","t">>,
        <<"p","a","c","k","e","t","_","l","o","s","s">>,
        <<"l","o","s","s">>,
        <<"l","o","s","s","_","p","e","r","c","e","n","t">> >> ]

\* Flexible column mapping (src/app.py:77-87): col_ts, col_date, ... as one
\* record, logical field -> header or None
map_columns(cols) == [f \in DOMAIN ALIASES |-> find_col(cols, ALIASES[f])]

(***************************************************************************)
(* Cells and date-time parsing.  A cell of the CSV is a record: k its      *)
(* kind, t its instant (date-time), day number (date) or time of day       *)
(* (time), s its text.                                                     *)
(*   "na"        an empty cell: NaN                                        *)
(*   "str"       a text that is no date or time                            *)
(*   "datetime"  a date-time literal, "2024-03-02 12:00:00"                *)
(*   "date"      a calendar date, "2024-03-02"                             *)
(*   "time"      a time of day, "12:00:00"                                 *)
(***************************************************************************)
\* Ticks to the calendar day: the resolution of the model's clock.
Day == 2

\* pd.NaT
NaT == -1

NA == [k |-> "na", t |-> 0, s |-> << >>]

Str(s) == [k |-> "str", t |-> 0, s |-> s]

DateTime(t) == [k |-> "datetime", t |-> t, s |-> << >>]

Date(d) == [k |-> "date", t |-> d, s |-> << >>]

Time(t) == [k |-> "time", t |-> t, s |-> << >>]

notna(x) == x # NaT

\* The start of the calendar day of instant t: Timestamp.date()
start_of_day(t) == t - (t % Day)

\* pd.to_datetime(cell, errors="coerce") of one cell: a date is its midnight,
\* a bare time of day is taken on the current day, anything else is NaT.
to_datetime(cell, clk) ==
    CASE cell.k = "datetime" -> cell.t
      [] cell.k = "date"     -> cell.t * Day
      [] cell.k = "time"     -> start_of_day(clk) + cell.t
      [] OTHER               -> NaT

\* pd.to_datetime(str(cell), format="%H:%M:%S", errors="coerce").time():
\* only an hour:minute:second text matches the format.
to_time(cell) == IF cell.k = "time" THEN cell.t ELSE NaT

\* df[name]: the cells of the column called name
Column(rows, cols, name) ==
    LET j == CHOOSE j \in 1..Len(cols) : cols[j] = name
    IN  [i \in 1..Len(rows) |-> rows[i].cells[j]]

\* ts.notna().sum()
notna_sum(ts) == Cardinality({i \in 1..Len(ts) : notna(ts[i])})

\* Whether pd.to_datetime of these cells is timezone-aware: when the CSV's
\* date-time literals carry an offset and the column holds one.
parsed_aware(cells, offsets) ==
    offsets /\ \E i \in 1..Len(cells) : cells[i].k = "datetime"

(***************************************************************************)
(* build_timestamp (src/app.py:90-115).  Each strategy is the sequence of  *)
(* timestamps it returns, one per row, in row order.                       *)
(***************************************************************************)
\* lines 92-94: the mapped timestamp column
from_ts(rows, cols, cl, clk) ==
    LET cells == Column(rows, cols, cl.timestamp)
    IN  [i \in 1..Len(rows) |-> to_datetime(cells[i], clk)]

\* lines 96-103: date + " " + time.  d.astype(str) prints the dates alone
\* only when every parsed date is a midnight; a text with a second time of
\* day, or with "NaT" in it, does not parse.
from_date_time(rows, cols, cl, clk) ==
    LET dcells == Column(rows, cols, cl.date)
        tcells == Column(rows, cols, cl.time)
        d == [i \in 1..Len(rows) |-> to_datetime(dcells[i], clk)]
        t == [i \in 1..Len(rows) |-> to_time(tcells[i])]
        midnights == \A i \in 1..Len(rows) : notna(d[i]) => d[i] % Day = 0
    IN  [i \in 1..Len(rows) |->
            IF midnights /\ notna(d[i]) /\ notna(t[i]) THEN d[i] + t[i] ELSE NaT]

\* lines 105-106: the date column alone
from_date(rows, cols, cl, clk) ==
    LET cells == Column(rows, cols, cl.date)
    IN  [i \in 1..Len(rows) |-> to_datetime(cells[i], clk)]

\* lines 108-115: the first column with the most cells that parse (the score
\* rises only on a strictly greater count); 0 when no column parses at all.
scan_best(rows, cols, clk) ==
    LET ok(j) == notna_sum([i \in 1..Len(rows) |-> to_datetime(rows[i].cells[j], clk)])
        cands == {j \in 1..Len(cols) : ok(j) > 0}
    IN  IF cands = {} THEN 0
        ELSE CHOOSE j \in cands :
                \A j2 \in cands : ok(j2) < ok(j) \/ (ok(j2) = ok(j) /\ j <= j2)

from_scan(rows, cols, clk) ==
    LET best == scan_best(rows, cols, clk)
    IN  IF best = 0 THEN [i \in 1..Len(rows) |-> NaT]
        ELSE [i \in 1..Len(rows) |-> to_datetime(rows[i].cells[best], clk)]

\* Which branch returns: "ts", "date_time", "date" or "scan".
strategy(rows, cols, cl, clk) ==
    IF Truthy(cl.timestamp) /\ notna_sum(from_ts(rows, cols, cl, clk)) > 0 THEN "ts"
    ELSE IF Truthy(cl.date) /\ Truthy(cl.time) THEN "date_time"
    ELSE IF Truthy(cl.date) THEN "date"
    ELSE "scan"

\* A variant that prefers date + time over the timestamp column.
build_timestamp_date_first(rows, cols, cl, clk) ==
    IF Truthy(cl.date) /\ Truthy(cl.time) THEN from_date_time(rows, cols, cl, clk)
    ELSE IF Truthy(cl.timestamp) THEN from_ts(rows, cols, cl, clk)
    ELSE from_scan(rows, cols, clk)

build_timestamp(rows, cols, cl, clk) ==
    CASE strategy(rows, cols, cl, clk) = "ts"        -> from_ts(rows, cols, cl, clk)
      [] strategy(rows, cols, cl, clk) = "date_time" -> from_date_time(rows, cols, cl, clk)
      [] strategy(rows, cols, cl, clk) = "date"      -> from_date(rows, cols, cl, clk)
      [] OTHER                                       -> from_scan(rows, cols, clk)

\* The dtype of the result: timezone-aware or naive.
timestamp_aware(rows, cols, cl, clk, offsets) ==
    LET s == strategy(rows, cols, cl, clk)
    IN  CASE s = "ts"        -> parsed_aware(Column(rows, cols, cl.timestamp), offsets)
          [] s = "date_time" -> FALSE
          [] s = "date"      -> parsed_aware(Column(rows, cols, cl.date), offsets)
          [] OTHER ->
                LET best == scan_best(rows, cols, clk)
                IN  best # 0 /\
                    parsed_aware([i \in 1..Len(rows) |-> rows[i].cells[best]], offsets)

(***************************************************************************)
(* Date filtering (src/app.py:138-153).  A pd.Timestamp is a record: t its *)
(* instant, aware whether it carries a timezone.                           *)
(***************************************************************************)
Timestamp(t, tzaware) == [t |-> t, aware |-> tzaware]

\* pd.Timedelta(days=7) and pd.Timedelta(hours=24)
Days7 == 7 * Day

Hours24 == Day

\* lines 138-150: the bounds <<start, now>>.  utcnow() is timezone-aware, a
\* Timestamp made from a date is naive.
window_bounds(range, picked, clk) ==
    LET utcnow == Timestamp(clk, TRUE)
    IN  CASE range = "Last 7 days"   -> <<Timestamp(clk - Days7, TRUE), utcnow>>
          [] range = "Today"         -> <<Timestamp(start_of_day(clk), FALSE), utcnow>>
          [] range = "Last 24 hours" -> <<Timestamp(clk - Hours24, TRUE), utcnow>>
          [] OTHER ->
                IF Len(picked) = 2
                THEN <<Timestamp(picked[1] * Day, FALSE),
                       Timestamp(picked[2] * Day + Day, FALSE)>>
                ELSE <<Timestamp(clk - Days7, TRUE), utcnow>>

\* A comparison of a timezone-aware with a naive date-time raises TypeError.
mask_raises(tsaware, lo, hi) == tsaware # lo.aware \/ tsaware # hi.aware

\* A variant of the mask that lets NaT through.
window_filter_keeps_nat(rows, lo, hi) ==
    LET keep(r) == r.ts = NaT \/ (r.ts >= lo.t /\ r.ts <= hi.t)
    IN  SelectSeq(rows, keep)

\* A variant of the mask that ends the window at the newest row of the frame
\* instead of at now.
window_filter_from_newest(rows, lo, hi) ==
    LET newest(r) == notna(r.ts) /\ \A x \in {rows[i] : i \in 1..Len(rows)} : x.ts <= r.ts
        keep(r) == /\ notna(r.ts)
                   /\ \E n \in {rows[i] : i \in 1..Len(rows)} :
                         /\ newest(n)
                         /\ r.ts >= n.ts - (hi.t - lo.t)
    IN  SelectSeq(rows, keep)

\* lines 152-153: a comparison with NaT is False
window_filter(rows, lo, hi) ==
    LET keep(r) == notna(r.ts) /\ r.ts >= lo.t /\ r.ts <= hi.t
    IN  SelectSeq(rows, keep)

(***************************************************************************)
(* Sidebar (src/app.py:126-135) and the other filters (src/app.py:156-163) *)
(***************************************************************************)
Cell(r, cols, name) == r.cells[CHOOSE j \in 1..Len(cols) : cols[j] = name]

\* df[name].dropna().unique(): the choices of a multiselect
options(rows, cols, name) ==
    IF Truthy(name)
    THEN {Cell(rows[i], cols, name) : i \in 1..Len(rows)} \ {NA}
    ELSE {}

ONLINE == <<"O","N","L","I","N","E">>

OFFLINE == <<"O","F","F","L","I","N","E">>

HIGH_LOSS == <<"H","I","G","H"," ","L","O","S","S">>

UNKNOWN == <<"U","N","K","N","O","W","N">>

\* line 134
StatusOptions == {ONLINE, OFFLINE, HIGH_LOSS, UNKNOWN}

\* astype(str) of one cell: NaN prints "nan"; a date or time literal is a text
\* of digits and punctuation.
astype_str(cell) ==
    CASE cell.k = "str" -> cell.s
      [] cell.k = "na"  -> <<"n","a","n">>
      [] OTHER          -> <<"0">>

\* lines 156-157
filter_project(rows, cols, cl, sel) ==
    LET keep(r) == Cell(r, cols, cl.project) \in sel
    IN  IF Truthy(cl.project) /\ sel # {} THEN SelectSeq(rows, keep) ELSE rows

\* lines 158-159
filter_type(rows, cols, cl, sel) ==
    LET keep(r) == Cell(r, cols, cl.device_type) \in sel
    IN  IF Truthy(cl.device_type) /\ sel # {} THEN SelectSeq(rows, keep) ELSE rows

\* A variant of the status filter that compares without upper().
filter_status_exact(rows, cols, cl, sel) ==
    LET keep(r) == astype_str(Cell(r, cols, cl.status)) \in sel
    IN  IF Truthy(cl.status) /\ sel # {} THEN SelectSeq(rows, keep) ELSE rows

\* lines 160-163
filter_status(rows, cols, cl, sel) ==
    LET vals    == {upper(x) : x \in sel}
        keep(r) == upper(astype_str(Cell(r, cols, cl.status))) \in vals
    IN  IF Truthy(cl.status) /\ sel # {} THEN SelectSeq(rows, keep) ELSE rows

\* lines 156-163, in the script's order
categorical_filter(rows, cols, cl, psel, tsel, ssel) ==
    filter_status(filter_type(filter_project(rows, cols, cl, psel),
                              cols, cl, tsel),
                  cols, cl, ssel)

(***************************************************************************)
(* latest_per_device (src/app.py:166-176)                                  *)
(***************************************************************************)
\* lines 169-174: the headers of the key columns
key_columns(cols, cl) ==
    IF Truthy(cl.ip) THEN <<cl.ip>>
    ELSE LET ks == SelectSeq(<<cl.cid, cl.device_type>>, Truthy)
         IN  IF ks # << >> THEN ks ELSE <<cols[1]>>

\* The identity key of a row: its cells in the key columns.
key_of(r, cols, cl) ==
    LET ks == key_columns(cols, cl)
    IN  [n \in 1..Len(ks) |-> Cell(r, cols, ks[n])]

\* groupby(keys) has dropna=True: a row with NaN in a key column is in no group.
in_group(r, cols, cl) ==
    \A n \in 1..Len(key_columns(cols, cl)) : key_of(r, cols, cl)[n] # NA

\* sort_values("__Timestamp__"): ascending, NaT last; the default sort is not
\* stable, so rows of one timestamp come in any order.
sort_values(rows) ==
    LET n == Len(rows)
        before(a, b) == notna(a.ts) /\ (b.ts = NaT \/ a.ts < b.ts)
        perms == {p \in [1..n -> 1..n] : \A i, j \in 1..n : i # j => p[i] # p[j]}
    IN  {[i \in 1..n |-> rows[p[i]]] : p \in
            {q \in perms : \A i, j \in 1..n : i < j => ~before(rows[q[j]], rows[q[i]])}}

\* dropna(subset=["__Timestamp__"])
dropna(rows) ==
    LET keep(r) == notna(r.ts)
    IN  SelectSeq(rows, keep)

\* A variant that takes the first row of every group: head(1).
head1(rows, cols, cl) ==
    LET picked == {i \in 1..Len(rows) :
                      /\ in_group(rows[i], cols, cl)
                      /\ \A j \in 1..(i - 1) :
                            key_of(rows[j], cols, cl) # key_of(rows[i], cols, cl)}
        RECURSIVE take(_)
        take(i) == IF i > Len(rows) THEN << >>
                   ELSE (IF i \in picked THEN <<rows[i]>> ELSE << >>) \o take(i + 1)
    IN  take(1)

\* groupby(keys, as_index=False).tail(1): the last row of every group, in the
\* order of the sorted frame.
tail1(rows, cols, cl) ==
    LET picked == {i \in 1..Len(rows) :
                      /\ in_group(rows[i], cols, cl)
                      /\ \A j \in (i + 1)..Len(rows) :
                            key_of(rows[j], cols, cl) # key_of(rows[i], cols, cl)}
        RECURSIVE take(_)
        take(i) == IF i > Len(rows) THEN << >>
                   ELSE (IF i \in picked THEN <<rows[i]>> ELSE << >>) \o take(i + 1)
    IN  take(1)

\* The frames latest_per_device may return.
latest_per_device(rows, cols, cl) ==
    IF rows = << >> THEN {rows}
    ELSE {tail1(dropna(s), cols, cl) : s \in sort_values(rows)}

(***************************************************************************)
(* The environment: the CSV files the sheet may publish, the clock, and    *)
(* the choices a user may make in the sidebar.                             *)
(***************************************************************************)
\* The most rows in a CSV file.
MaxRows == 2

\* The last calendar day st.date_input offers (the first is day 0).
MaxDay == 1

SeqsUpTo(S, n) == UNION {[1..k -> S] : k \in 0..n}

\* The rows whose j-th cell is drawn from the j-th set.
RowsOf(cellsets) ==
    {r \in [1..Len(cellsets) -> UNION {cellsets[j] : j \in 1..Len(cellsets)}] :
        \A j \in 1..Len(cellsets) : r[j] \in cellsets[j]}

HTimestamp == <<"T","i","m","e","s","t","a","m","p">>
HDate == <<"D","a","t","e">>
HTime == <<"T","i","m","e">>
HIP == <<"I","P">>
HStatus == <<"S","t","a","t","u","s">>
HWhen == <<"W","h","e","n">>
HProject == <<"P","r","o","j","e","c","t">>
HDeviceType == <<"D","e","v","i","c","e"," ","T","y","p","e">>
HCID == <<"C","I","D">>
HSite == <<"S","i","t","e">>
HSeen == <<"S","e","e","n">>
HNote == <<"N","o","t","e">>

IpA == Str(<<"1","0",".","0",".","0",".","1">>)
IpB == Str(<<"1","0",".","0",".","0",".","2">>)
SiteA == Str(<<"H","Q">>)
SiteB == Str(<<"L","a","b">>)
Router == Str(<<"r","o","u","t","e","r">>)
Dev1 == Str(<<"d","1">>)
Online == Str(<<"O","n","l","i","n","e">>)
Offline == Str(<<"O","F","F","L","I","N","E">>)
Junk == Str(<<"n","/","a">>)

\* Header lists with the cells each column may hold, and whether the
\* date-time literals may carry a UTC offset.
Sheets == {
    [columns |-> <<HTimestamp, HDate, HTime>>,
     cells   |-> <<{DateTime(1), Junk}, {Date(1), NA}, {Time(1), Junk}>>,
     offsets |-> {FALSE}],
    [columns |-> <<HIP, HTimestamp, HStatus>>,
     cells   |-> <<{IpA, IpB}, {DateTime(1), DateTime(2 * Day), NA},
                   {Online, Offline}>>,
     offsets |-> BOOLEAN],
    [columns |-> <<HWhen, HProject, HDeviceType, HCID>>,
     cells   |-> <<{DateTime(Day), DateTime(2 * Day)}, {SiteA, SiteB},
                   {Router, NA}, {Dev1}>>,
     offsets |-> BOOLEAN],
    [columns |-> <<HDate, HTime, HIP>>,
     cells   |-> <<{Date(0), Date(1)}, {Time(1), Junk}, {IpA, IpB}>>,
     offsets |-> {FALSE}],
    [columns |-> <<HDate, HSite>>,
     cells   |-> <<{Date(0), Date(1), NA}, {SiteA, SiteB}>>,
     offsets |-> {FALSE}],
    [columns |-> <<HSeen, HNote>>,
     cells   |-> <<{DateTime(1), Junk}, {DateTime(Day), Junk}>>,
     offsets |-> BOOLEAN] }

CsvFiles ==
    UNION {{[columns |-> sh.columns, rows |-> rows, offsets |-> o] :
               rows \in SeqsUpTo(RowsOf(sh.cells), MaxRows), o \in sh.offsets} :
           sh \in Sheets}

Clocks == {2 * Day + 1}

DateRanges == {"Last 7 days", "Today", "Last 24 hours", "Custom"}

\* st.date_input: a range (two dates, in order), or its first date alone
\* while the user is still picking.
DateInputs ==
    {r \in (0..MaxDay) \X (0..MaxDay) : r[1] <= r[2]} \cup {<<a>> : a \in 0..MaxDay}

StatusChoices == {StatusOptions, {}, {ONLINE}, {OFFLINE, UNKNOWN}}

(***************************************************************************)
(* The frames handed to latest_per_device when it is checked on its own:   *)
(* header lists, cells, and the values of __Timestamp__.                   *)
(***************************************************************************)
\* The most rows in a frame handed to latest_per_device.
MaxLen == 3

Frames == {
    [columns |-> <<HIP, HStatus>>,
     cells   |-> <<{IpA, IpB, NA}, {Online}>>,
     stamps  |-> {NaT, 1, 2, 3}],
    [columns |-> <<HCID, HDeviceType>>,
     cells   |-> <<{Dev1, NA}, {Router, NA}>>,
     stamps  |-> {1, 2}],
    [columns |-> <<HNote>>,
     cells   |-> <<{Junk, SiteA, NA}>>,
     stamps  |-> {NaT, 1, 2}] }

\* map_columns of every header list above, evaluated once.
ColumnMappings ==
    [hs \in {sh.columns : sh \in Sheets} \cup {fr.columns : fr \in Frames} |->
        map_columns(hs)]

(***************************************************************************)
(* The script, top to bottom                                               *)
(***************************************************************************)
Init ==
    /\ csv \in CsvFiles
    /\ clock \in Clocks
    /\ pc = "load"
    /\ columns = << >>
    /\ df = << >>
    /\ aware = FALSE
    /\ col = [f \in DOMAIN ALIASES |-> None]
    /\ projects = {}
    /\ device_types = {}
    /\ statuses = {}
    /\ date_range = "Last 7 days"
    /\ c = << >>
    /\ start = None
    /\ now = None
    /\ latest = << >>
    /\ aliases = << >>
    /\ found = None

\* line 69: df = load_csv(csv_url)
Load ==
    /\ pc = "load"
    /\ columns' = csv.columns
    /\ df' = [i \in 1..Len(csv.rows) |-> [idx |-> i, cells |-> csv.rows[i]]]
    /\ pc' = "map"
    /\ UNCHANGED <<csv, clock, aware, col, projects, device_types, statuses,
                   date_range, c, start, now, latest, aliases, found>>

\* lines 77-87
MapColumns ==
    /\ pc = "map"
    /\ col' = ColumnMappings[columns]
    /\ pc' = "timestamp"
    /\ UNCHANGED <<csv, clock, columns, df, aware, projects, device_types,
                   statuses, date_range, c, start, now, latest, aliases, found>>

\* lines 117-123: the __Timestamp__ column, and st.stop() when it is all NaT
BuildTimestamp ==
    /\ pc = "timestamp"
    /\ LET ts == build_timestamp(df, columns, col, clock)
       IN  /\ df' = [i \in 1..Len(df) |->
                        [idx |-> df[i].idx, cells |-> df[i].cells, ts |-> ts[i]]]
           /\ pc' = IF notna_sum(ts) = 0 THEN "TimestampUnresolvable" ELSE "sidebar"
    /\ aware' = timestamp_aware(df, columns, col, clock, csv.offsets)
    /\ UNCHANGED <<csv, clock, columns, col, projects, device_types, statuses,
                   date_range, c, start, now, latest, aliases, found>>

\* lines 126-135
Sidebar ==
    /\ pc = "sidebar"
    /\ date_range' \in DateRanges
    /\ projects' \in SUBSET options(df, columns, col.project)
    /\ device_types' \in SUBSET options(df, columns, col.device_type)
    /\ statuses' \in IF Truthy(col.status) THEN StatusChoices ELSE {{}}
    /\ pc' = "date"
    /\ UNCHANGED <<csv, clock, columns, df, aware, col, c, start, now, latest,
                   aliases, found>>

\* lines 138-150
DateRange ==
    /\ pc = "date"
    /\ c' \in IF date_range = "Custom" THEN DateInputs ELSE {c}
    /\ start' = window_bounds(date_range, c', clock)[1]
    /\ now' = window_bounds(date_range, c', clock)[2]
    /\ pc' = "mask"
    /\ UNCHANGED <<csv, clock, columns, df, aware, col, projects, device_types,
                   statuses, date_range, latest, aliases, found>>

\* lines 152-153
WindowFilter ==
    /\ pc = "mask"
    /\ IF mask_raises(aware, start, now)
       THEN pc' = "TypeError" /\ df' = df
       ELSE pc' = "filter" /\ df' = window_filter(df, start, now)
    /\ UNCHANGED <<csv, clock, columns, aware, col, projects, device_types,
                   statuses, date_range, c, start, now, latest, aliases, found>>

\* lines 156-163
CategoricalFilter ==
    /\ pc = "filter"
    /\ df' = categorical_filter(df, columns, col, projects, device_types, statuses)
    /\ pc' = "latest"
    /\ UNCHANGED <<csv, clock, columns, aware, col, projects, device_types,
                   statuses, date_range, c, start, now, latest, aliases, found>>

\* line 178
Latest ==
    /\ pc = "latest"
    /\ latest' \in latest_per_device(df, columns, col)
    /\ pc' = "done"
    /\ UNCHANGED <<csv, clock, columns, df, aware, col, projects, device_types,
                   statuses, date_range, c, start, now, aliases, found>>

Next ==
    \/ Load
    \/ MapColumns
    \/ BuildTimestamp
    \/ Sidebar
    \/ DateRange
    \/ WindowFilter
    \/ CategoricalFilter
    \/ Latest

Spec == Init /\ [][Next]_vars

(***************************************************************************)
(* latest_per_device on any frame: the script entered at line 178 with a   *)
(* frame whose __Timestamp__ column may hold NaT.                          *)
(***************************************************************************)
FrameRows(fr) ==
    {[cells |-> cs, ts |-> t] : cs \in RowsOf(fr.cells), t \in fr.stamps}

ReduceInit ==
    /\ \E fr \in Frames :
         \E rows \in SeqsUpTo(FrameRows(fr), MaxLen) :
            /\ csv = [columns |-> fr.columns,
                      rows    |-> [i \in 1..Len(rows) |-> rows[i].cells],
                      offsets |-> FALSE]
            /\ columns = fr.columns
            /\ df = [i \in 1..Len(rows) |->
                        [idx |-> i, cells |-> rows[i].cells, ts |-> rows[i].ts]]
    /\ col = ColumnMappings[columns]
    /\ clock = 0
    /\ pc = "latest"
    /\ aware = FALSE
    /\ projects = {}
    /\ device_types = {}
    /\ statuses = {}
    /\ date_range = "Last 7 days"
    /\ c = << >>
    /\ start = None
    /\ now = None
    /\ latest = << >>
    /\ aliases = << >>
    /\ found = None

SpecReduce == ReduceInit /\ [][Latest]_vars

(***************************************************************************)
(* find_col on any header list and alias list: one call.                   *)
(***************************************************************************)
\* The most headers of a frame, and the most aliases of a field.
MaxCols == 2

MaxAliases == 2

HeaderNames == {<<"a">>, <<"A">>, <<"b">>, <<"a","b">>, <<"b","a">>,
                <<"a","-","b">>, <<"A"," ","B">>, <<"c">>}

AliasNames == {<<"a">>, <<"b">>, <<"a","b">>, <<"a","_","b">>, <<"A","-","B">>}

\* read_csv renames a repeated header, so the headers of a frame differ.
Distinct(s) == \A i, j \in 1..Len(s) : i # j => s[i] # s[j]

HAvgPingParens == <<"A","v","g"," ","P","i","n","g"," ","(","m","s",")">>
HAvgPingDashes == <<"a","v","g","-","p","i","n","g","-","m","s">>
HAvgPingUpper == <<"A","V","G","_","P","I","N","G","_","M","S">>
AvgPingMs == <<"a","v","g","_","p","i","n","g","_","m","s">>

\* The calls find_col(df, aliases) that are tried: <<df.columns, aliases>>
FindColCalls ==
    {<<hs, as>> :
        hs \in {s \in SeqsUpTo(HeaderNames, MaxCols) : Len(s) >= 1 /\ Distinct(s)},
        as \in {s \in SeqsUpTo(AliasNames, MaxAliases) : Len(s) >= 1}}
    \cup {<< <<h>>, <<AvgPingMs>> >> :
             h \in {HAvgPingParens, HAvgPingDashes, HAvgPingUpper}}

ResolveInit ==
    /\ \E call \in FindColCalls : columns = call[1] /\ aliases = call[2]
    /\ pc = "find_col"
    /\ found = None
    /\ csv = [columns |-> columns, rows |-> << >>, offsets |-> FALSE]
    /\ clock = 0
    /\ df = << >>
    /\ aware = FALSE
    /\ col = [f \in DOMAIN ALIASES |-> None]
    /\ projects = {}
    /\ device_types = {}
    /\ statuses = {}
    /\ date_range = "Last 7 days"
    /\ c = << >>
    /\ start = None
    /\ now = None
    /\ latest = << >>

\* find_col(df, aliases)
FindCol ==
    /\ pc = "find_col"
    /\ found' = find_col(columns, aliases)
    /\ pc' = "found"
    /\ UNCHANGED <<csv, clock, columns, df, aware, col, projects, device_types,
                   statuses, date_range, c, start, now, latest, aliases>>

SpecResolve == ResolveInit /\ [][FindCol]_vars

(***************************************************************************)
(* Properties                                                              *)
(***************************************************************************)
Rows(s) == {s[i] : i \in 1..Len(s)}

\* The frame as loaded, and the timestamp build_timestamp gives its i-th row.
Loaded == [i \in 1..Len(csv.rows) |-> [idx |-> i, cells |-> csv.rows[i]]]

Stamp(i) == build_timestamp(Loaded, columns, col, clock)[i]

KeyOf(r) == key_of(r, columns, col)

\* No component of the row's identity key is missing.
KeyComplete(r) == \A n \in 1..Len(KeyOf(r)) : KeyOf(r)[n].k # "na"

\* C1: the snapshot holds exactly one row for every identity key found among
\* the rows with a timestamp, a missing key component counting as a key value
\* of its own: as many rows as keys, no key twice, no key left out.
C1_OneRowPerKey ==
    pc = "done" =>
        LET keys == {KeyOf(r) : r \in {x \in Rows(df) : notna(x.ts)}}
        IN  /\ Len(latest) = Cardinality(keys)
            /\ \A i, j \in 1..Len(latest) :
                  i # j => KeyOf(latest[i]) # KeyOf(latest[j])
            /\ \A k \in keys : \E i \in 1..Len(latest) : KeyOf(latest[i]) = k

Stamped == {"TimestampUnresolvable", "sidebar", "date", "mask", "TypeError",
            "filter", "latest", "done"}

TsCell(r) == Cell(r, columns, col.timestamp)

\* C3: with a timestamp column mapped and at least one of its cells a date-time,
\* every row's timestamp is that of its own timestamp cell, and null when the
\* cell is no date-time, whatever its date and time cells hold.
C3_TimestampColumnOnly ==
    ( /\ pc \in Stamped
      /\ Truthy(col.timestamp)
      /\ \E r \in Rows(Loaded) : TsCell(r).k = "datetime" )
    => \A r \in Rows(df) :
          r.ts = IF TsCell(r).k = "datetime" THEN TsCell(r).t ELSE NaT

\* Timestamp, date and time columns are all mapped; one row takes its timestamp
\* from its timestamp cell, another has no timestamp although its date and
\* time cells are valid.
C3_Witness ==
    /\ pc = "sidebar"
    /\ Truthy(col.timestamp) /\ Truthy(col.date) /\ Truthy(col.time)
    /\ \E r \in Rows(df) :
          /\ TsCell(r).k = "datetime" /\ r.ts = TsCell(r).t
          /\ Cell(r, columns, col.date).k = "date"
          /\ Cell(r, columns, col.time).k = "time"
    /\ \E r \in Rows(df) :
          /\ TsCell(r).k # "datetime" /\ r.ts = NaT
          /\ Cell(r, columns, col.date).k = "date"
          /\ Cell(r, columns, col.time).k = "time"

\* C4: with Custom(start, end) the window filter keeps exactly the rows with
\* start-of-day(start) <= t < start-of-day(end) + 1 day.
C4_CustomWindowHalfOpen ==
    [][ (pc = "mask" /\ pc' = "filter" /\ date_range = "Custom" /\ Len(c) = 2)
        => LET inside(r) == /\ notna(r.ts)
                            /\ c[1] * Day <= r.ts
                            /\ r.ts < c[2] * Day + Day
           IN  df' = SelectSeq(df, inside) ]_vars

\* C5: the cycle ends in TimestampUnresolvable exactly when the loaded frame
\* has rows and none of them gets a timestamp; a frame without rows does not.
C5_FatalIffRowsWithoutTimestamp ==
    pc \in {"TimestampUnresolvable", "sidebar"} =>
        ( pc = "TimestampUnresolvable"
          <=> (Len(df) > 0 /\ \A r \in Rows(df) : r.ts = NaT) )

\* C6: the categorical filters and the window filter give the same rows in
\* either order, the rows both keep.
C6_FiltersCommute ==
    (pc = "mask" /\ ~mask_raises(aware, start, now)) =>
        LET W(rows) == window_filter(rows, start, now)
            F(rows) == categorical_filter(rows, columns, col, projects,
                                          device_types, statuses)
        IN  /\ F(W(df)) = W(F(df))
            /\ Rows(F(W(df))) = Rows(W(df)) \cap Rows(F(df))

\* Each filter drops a row the other keeps.
C6_Witness ==
    /\ pc = "mask" /\ ~mask_raises(aware, start, now)
    /\ LET W == Rows(window_filter(df, start, now))
           F == Rows(categorical_filter(df, columns, col, projects,
                                        device_types, statuses))
       IN  W \ F # {} /\ F \ W # {}

SameIgnoringCase(a, b) ==
    Len(a) = Len(b) /\ \A i \in 1..Len(a) : LowerChar(a[i]) = LowerChar(b[i])

\* What the categorical filters ask of a row: nothing for a field that is
\* unresolved or has nothing selected, else a selected value, exactly for
\* project and device type and whatever the case for status.
Selected(r) ==
    /\ (Truthy(col.project) /\ projects # {})
          => Cell(r, columns, col.project) \in projects
    /\ (Truthy(col.device_type) /\ device_types # {})
          => Cell(r, columns, col.device_type) \in device_types
    /\ (Truthy(col.status) /\ statuses # {})
          => \E x \in statuses :
                SameIgnoringCase(x, astype_str(Cell(r, columns, col.status)))

\* C7: the categorical filter keeps exactly the rows whose value is selected
\* in every field that is resolved and has a selection.
C7_CategoricalFilter ==
    [][ pc = "filter" => df' = SelectSeq(df, Selected) ]_vars

\* With ONLINE alone selected, a row "Online" was kept and a row "OFFLINE" of
\* the window was dropped.
C7_Witness ==
    /\ pc = "latest"
    /\ statuses = {ONLINE}
    /\ \E r \in Rows(df) : Cell(r, columns, col.status) = Online
    /\ \E i \in 1..Len(csv.rows) :
          /\ Cell(Loaded[i], columns, col.status) = Offline
          /\ start.t <= Stamp(i) /\ Stamp(i) <= now.t
          /\ \A r \in Rows(df) : r.idx # i

\* C8 as stated: each of the three headers resolves for the alias
\* "avg_ping_ms", and all three normalize to one key.
C8_ThreeHeadersResolve ==
    ( /\ pc = "found"
      /\ aliases = <<AvgPingMs>>
      /\ columns \in {<<HAvgPingParens>>, <<HAvgPingDashes>>, <<HAvgPingUpper>>} )
    => found = columns[1] /\ norm(columns[1]) = norm(HAvgPingDashes)

\* C8, amended: "avg-ping-ms" and "AVG_PING_MS" normalize to "avg_ping_ms" and
\* resolve; "Avg Ping (ms)" keeps its parentheses, "avg_ping_(ms)", and does
\* not resolve.
C8_DashesAndUpperResolve ==
    ( /\ pc = "found"
      /\ aliases = <<AvgPingMs>>
      /\ columns \in {<<HAvgPingParens>>, <<HAvgPingDashes>>, <<HAvgPingUpper>>} )
    => IF columns[1] = HAvgPingParens
       THEN /\ norm(columns[1]) = <<"a","v","g","_","p","i","n","g","_","(","m","s",")">>
            /\ found = None
       ELSE /\ norm(columns[1]) = AvgPingMs
            /\ found = columns[1]

C8_Witness ==
    /\ pc = "found"
    /\ aliases = <<AvgPingMs>>
    /\ columns = <<HAvgPingUpper>>
    /\ found = HAvgPingUpper

\* The first header, in header order, with this normalized key.
FirstHeader(key) ==
    columns[CHOOSE j \in 1..Len(columns) :
                /\ norm(columns[j]) = key
                /\ \A j2 \in 1..(j - 1) : norm(columns[j2]) # key]

\* C9: the earliest alias equal to a normalized header wins, and among the
\* headers of that key the first; failing any exact match, the earliest alias
\* that is a prefix of or contained in a normalized header, and the first such
\* header; else none.
C9_FindColPrecedence ==
    pc = "found" =>
        LET hkeys == {norm(columns[j]) : j \in 1..Len(columns)}
            sub(a, k) == startswith(k, norm(a)) \/ contains(k, norm(a))
            exact == {i \in 1..Len(aliases) : norm(aliases[i]) \in hkeys}
            part  == {i \in 1..Len(aliases) : \E k \in hkeys : sub(aliases[i], k)}
        IN  IF exact # {}
            THEN LET a == CHOOSE i \in exact : \A i2 \in exact : i <= i2
                 IN  found = FirstHeader(norm(aliases[a]))
            ELSE IF part # {}
            THEN LET a == CHOOSE i \in part : \A i2 \in part : i <= i2
                     j == CHOOSE j1 \in 1..Len(columns) :
                            /\ sub(aliases[a], norm(columns[j1]))
                            /\ \A j2 \in 1..(j1 - 1) : ~sub(aliases[a], norm(columns[j2]))
                 IN  found = columns[j]
            ELSE found = None

\* C10: build_timestamp gives one timestamp per loaded row, in order; no row
\* without a timestamp is in the windowed frame; every snapshot row is a loaded
\* row with a timestamp inside the window that every active categorical filter
\* keeps.
C10_SnapshotRowsEligible ==
    /\ pc \in {"TimestampUnresolvable", "sidebar", "date", "mask", "TypeError"}
          => /\ Len(df) = Len(csv.rows)
             /\ \A i \in 1..Len(df) : df[i].idx = i /\ df[i].cells = csv.rows[i]
    /\ pc \in {"filter", "latest", "done"}
          => \A r \in Rows(df) : notna(r.ts)
    /\ pc = "done"
          => \A r \in Rows(latest) :
                /\ r.idx \in 1..Len(csv.rows) /\ r.cells = csv.rows[r.idx]
                /\ r.ts = Stamp(r.idx)
                /\ notna(r.ts) /\ start.t <= r.ts /\ r.ts <= now.t
                /\ Selected(r)

\* A snapshot was produced while a loaded row had no timestamp.
C10_Witness ==
    /\ pc = "done"
    /\ latest # << >>
    /\ \E i \in 1..Len(csv.rows) : Stamp(i) = NaT

=============================================================================
